---- MODULE Spec2Model ----
(***************************************************************************)
(* crypto-pulse-minions: the Binance ingestion fan-out                     *)
(* (src/services/binance.js) and the RabbitMQ hopper worker pool           *)
(* (src/minion/hopper-mq.js).                                              *)
(*                                                                         *)
(* Numbers: JavaScript numbers are modelled by integers.  Infinity and     *)
(* -Infinity are the two sentinels below, larger (smaller) than every      *)
(* price and timestamp of the model.  Time is in milliseconds with the     *)
(* epoch shifted so that the values fit 32-bit integers.                   *)
(***************************************************************************)
EXTENDS Integers, Sequences, FiniteSets, TLC

\* ------------------------------------------------------------------ bounds
MaxFrames == 2
MaxMsgs == 2
MaxStarts == 1
MaxThreads == 2

\* --------------------------------------------------------- program values
Infinity == 2000000000
NegInfinity == 0 - Infinity
RetentionWindow == 60 * 60 * 1000
SecondDelay == 300

\* src/services/binance.js:35-37
intervals ==
  << 5, 10, 15, 30, 60, 900, 1800, 3600, 86400, 604800, 2592000, 7776000,
     15552000, 31536000, Infinity >>

IntervalSet == { intervals[k] : k \in 1..Len(intervals) }

\* ----------------------------------------------------------- input domains
Symbols == {"BTCUSDT", "ETHUSDT"}
Prices == {1, 2}
\* trade event times: 0 is aligned with every interval (the unbounded one
\* included), 30 with the four finest only
EventTimes == {0, 30}
\* kline close time
CloseTimes == {2 * RetentionWindow}
\* the values Date.now() takes: the cutoff is 0, then one retention window
ClockValues == {RetentionWindow, 2 * RetentionWindow}

\* Frames of the combined stream after JSON.parse.  tag is the text between
\* '@' and '_' of item.stream ("none": the frame carries no stream field;
\* "malformed": the text of the frame is not JSON and JSON.parse throws).
\* A trade uses s, t (= E) and p; a kline uses s, t (= k.T), the interval
\* label k.i, k.h and k.l.  The label is a string ("5m": iNum FALSE, i = 5) or,
\* in a frame that carries it as a JSON number, that number (iNum TRUE).
TradeFrames ==
  [ tag : {"trade"}, s : Symbols, t : EventTimes, p : Prices,
    iNum : {FALSE}, i : {0}, h : {0}, l : {0} ]
KlineFrames ==
  [ tag : {"kline"}, s : {"BTCUSDT"}, t : CloseTimes, p : {0},
    iNum : BOOLEAN, i : {5}, h : Prices, l : {1} ]
OtherFrames ==
  [ tag : {"depth", "none", "malformed"}, s : {"BTCUSDT"}, t : {0}, p : {0},
    iNum : {FALSE}, i : {0}, h : {0}, l : {0} ]
Frames == TradeFrames \cup KlineFrames \cup OtherFrames

\* the frames of one symbol at one price: what the two sinks are sent does
\* not depend on the symbol or the price
SinkFrames ==
  { f \in TradeFrames \cup KlineFrames :
      /\ f.s = "BTCUSDT"
      /\ f.tag = "trade" => f.p = 1
      /\ f.tag = "kline" => ~f.iNum /\ f.h = 2 }

VARIABLES
  \* ---- src/services/binance.js
  highPrices,   \* interval -> tracked high            (line 40)
  lowPrices,    \* interval -> tracked low             (line 40)
  succK, succT, failK, failT,                       \* (line 45)
  now,          \* the last value read from Date.now()
  frames,       \* the frames dispatched so far; a frame's id is its index
  pendingEnq,   \* rabbit.sendQueue calls whose callback has not run yet
  pendingExec,  \* redis multi().exec() calls that have not settled yet
  cache,        \* sorted-set entries [channel, score, value]
  snapshots,    \* extrema keys: [key, price], last value set
  enqCalls,     \* [id, delay] -> number of sendQueue calls issued
  execCalls,    \* id -> number of multi().exec() calls issued
  snapCalls,    \* [id, interval] -> number of snapshot pipelines issued
  enqSettled,   \* [id, delay, err]: sendQueue callbacks that have run
  execSettled,  \* [id, cutoff, ok]: multi().exec() calls that have settled
  unhandled,    \* [id, what]: errors nothing handles: an exception thrown
                \* out of handleMessage, a promise left rejected
  statsLogged   \* per counter: total of the values the stats ticks logged

VARIABLES
  \* ---- src/minion/hopper-mq.js
  workerProcesses,  \* the worker objects, by position: [stopped]   (line 7)
  consumers,        \* consumers[k]: the worker whose main() registered the
                    \* k-th handler with hopperChan.consume        (line 100)
  successKlines, successTrades, failedKlines, failedTrades,     \* (line 8)
  queue,            \* messages waiting in the durable queue
  pendingWrites,    \* writeData promises that have not settled yet
  msgs,             \* number of messages published to the queue so far
  started,          \* what the last call of start did
  starts,           \* number of calls of start so far
  handled,          \* handler invocations: [mid, kind, worker, stopped,
                    \* decoded, wrote, raised, missing]
  deliveries,       \* mid -> number of deliveries
  writeCalls,       \* mid -> number of writeData calls
  settled,          \* [mid, ok]: writes that have settled
  reported          \* per counter: total of the values the status ticks logged

hopperVars ==
  << workerProcesses, consumers, successKlines, successTrades, failedKlines,
     failedTrades, queue, pendingWrites, msgs, started, starts, handled,
     deliveries, writeCalls, settled, reported >>

ingestVars ==
  << highPrices, lowPrices, succK, succT, failK, failT, now, frames,
     pendingEnq, pendingExec, cache, snapshots, enqCalls, execCalls,
     snapCalls, enqSettled, execSettled, unhandled, statsLogged >>

vars == << ingestVars, hopperVars >>

\* ------------------------------------------------------------------ helpers
Max(a, b) == IF a >= b THEN a ELSE b
Min(a, b) == IF a <= b THEN a ELSE b

\* faulty variant: the remainder by Infinity is taken to be 0
JsModWraps(t, i) == IF i = Infinity THEN 0 ELSE t % i

\* timestamp % interval for a timestamp >= 0 (x % Infinity is x)
JsMod(t, i) == IF i = Infinity THEN t ELSE t % i

Count(b, e) == IF e \in DOMAIN b THEN b[e] ELSE 0
BagAdd(b, e) == IF e \in DOMAIN b THEN [b EXCEPT ![e] = @ + 1] ELSE b @@ (e :> 1)
BagAddAll(b, S) == [ e \in DOMAIN b \cup S |-> Count(b, e) + (IF e \in S THEN 1 ELSE 0) ]

\* the intervals a trade with event time t is sampled against (lines 169-170)
Sampled(t) == { i \in IntervalSet : JsMod(t, i) = 0 }

\* faulty variant: the snapshot loop leaves out the alignment test
SnapshotAll(t) == IntervalSet

\* the intervals whose snapshot is written after the append (lines 212-213)
SnapshotIntervals(t) == { i \in IntervalSet : JsMod(t, i) = 0 }

\* faulty variant: the sampled price replaces the tracked high
AssignHigh(cur, price) == price

\* Math.max(highPrices[interval], price) (line 171)
SampleHigh(cur, price) == Max(cur, price)

\* Math.min(lowPrices[interval], price) (line 172)
SampleLow(cur, price) == Min(cur, price)

\* the canonical records (lines 177-191 and 257-274), reduced to the fields
\* the model distinguishes
tradeObject(f) ==
  [ eventType |-> "trade", symbol |-> f.s, price |-> f.p, iNum |-> FALSE,
    interval |-> 0, high |-> 0, low |-> 0, timestamp |-> f.t ]
klineObject(f) ==
  [ eventType |-> "kline", symbol |-> f.s, price |-> 0, iNum |-> f.iNum,
    interval |-> f.i, high |-> f.h, low |-> f.l, timestamp |-> f.t ]

\* channel names (lines 202 and 299)
tradeChannel(f) == [ kind |-> "trade", symbol |-> f.s, iNum |-> FALSE, interval |-> 0 ]
klineChannel(f) == [ kind |-> "kline", symbol |-> f.s, iNum |-> f.iNum, interval |-> f.i ]

\* faulty variant: the group prunes before it appends
AppendPruneLeaky(c, channel, score, value, cutoff) ==
  { e \in c : ~(e.channel = channel /\ 0 <= e.score /\ e.score <= cutoff) }
    \cup { [channel |-> channel, score |-> score, value |-> value] }
\* multi().zadd(channel, score, value).zremrangebyscore(channel, 0, cutoff)
\* (lines 206-210 and 303-307): one atomic group
AppendPrune(c, channel, score, value, cutoff) ==
  { e \in c \cup { [channel |-> channel, score |-> score, value |-> value] } :
      ~(e.channel = channel /\ 0 <= e.score /\ e.score <= cutoff) }

\* ------------------------------------------------------------------- Init
IngestInit ==
  /\ highPrices = [ i \in IntervalSet |-> IF i = Infinity THEN NegInfinity ELSE Infinity ]
  /\ lowPrices = [ i \in IntervalSet |-> IF i = Infinity THEN NegInfinity ELSE Infinity ]
  /\ succK = 0 /\ succT = 0 /\ failK = 0 /\ failT = 0
  /\ now = RetentionWindow
  /\ frames = << >>
  /\ pendingEnq = {}
  /\ pendingExec = {}
  /\ cache = {}
  /\ snapshots = {}
  /\ enqCalls = << >>
  /\ execCalls = << >>
  /\ snapCalls = << >>
  /\ enqSettled = {}
  /\ execSettled = {}
  /\ unhandled = {}
  /\ statsLogged = [ succK |-> 0, succT |-> 0, failK |-> 0, failT |-> 0 ]

HopperInit ==
  /\ workerProcesses = << >>
  /\ consumers = << >>
  /\ successKlines = 0 /\ successTrades = 0 /\ failedKlines = 0 /\ failedTrades = 0
  /\ queue = {}
  /\ pendingWrites = {}
  /\ msgs = 0
  /\ started = [ n |-> 0, spawned |-> 0, registered |-> 0, raised |-> FALSE ]
  /\ starts = 0
  /\ handled = {}
  /\ deliveries = << >>
  /\ writeCalls = << >>
  /\ settled = {}
  /\ reported = [ successKlines |-> 0, successTrades |-> 0,
                  failedKlines |-> 0, failedTrades |-> 0 ]

Init == IngestInit /\ HopperInit

\* ---------------------------------------------------------------- actions
\* processTrade, the synchronous part (lines 165-210)
processTrade(f, c) ==
  LET id == Len(frames) + 1 IN
  /\ highPrices' = [ i \in IntervalSet |->
        IF i \in Sampled(f.t) THEN SampleHigh(highPrices[i], f.p) ELSE highPrices[i] ]
  /\ lowPrices' = [ i \in IntervalSet |->
        IF i \in Sampled(f.t) THEN SampleLow(lowPrices[i], f.p) ELSE lowPrices[i] ]
  /\ frames' = Append(frames, f)
  /\ pendingEnq' = pendingEnq \cup { [id |-> id, delay |-> 0] }
  /\ enqCalls' = BagAdd(enqCalls, [id |-> id, delay |-> 0])
  /\ pendingExec' = pendingExec \cup { [id |-> id, cutoff |-> c - RetentionWindow] }
  /\ execCalls' = BagAdd(execCalls, id)
  /\ now' = c
  /\ UNCHANGED << succK, succT, failK, failT, cache, snapshots, snapCalls,
                  enqSettled, execSettled, unhandled, statsLogged >>

\* processKline, the synchronous part (lines 253-307).  The label matches an
\* entry of intervals under === only when it is that number; k.h and k.l
\* are compared and stored by their numeric value.
processKline(f, c) ==
  LET id == Len(frames) + 1
      found == \E k \in 1..Len(intervals) : f.iNum /\ intervals[k] = f.i
  IN
  /\ highPrices' = IF found /\ f.h > highPrices[f.i]
                     THEN [highPrices EXCEPT ![f.i] = f.h] ELSE highPrices
  /\ lowPrices' = IF found /\ f.l < lowPrices[f.i]
                    THEN [lowPrices EXCEPT ![f.i] = f.l] ELSE lowPrices
  /\ frames' = Append(frames, f)
  /\ pendingEnq' = pendingEnq \cup { [id |-> id, delay |-> SecondDelay] }
  /\ enqCalls' = BagAdd(enqCalls, [id |-> id, delay |-> SecondDelay])
  /\ pendingExec' = pendingExec \cup { [id |-> id, cutoff |-> c - RetentionWindow] }
  /\ execCalls' = BagAdd(execCalls, id)
  /\ now' = c
  /\ UNCHANGED << succK, succT, failK, failT, cache, snapshots, snapCalls,
                  enqSettled, execSettled, unhandled, statsLogged >>

\* faulty variant: a frame of an unknown stream kind is handled as a trade
DispatchUnknownAsTrade(f, c) ==
  /\ Len(frames) < MaxFrames
  /\ UNCHANGED hopperVars
  /\ c >= now
  /\ IF f.tag = "kline" THEN processKline(f, c) ELSE processTrade(f, c)

\* handleMessage of the ingestion side (lines 145-158)
\* c is the value Date.now() returns while the frame is handled
Dispatch(f, c) ==
  /\ Len(frames) < MaxFrames
  /\ UNCHANGED hopperVars
  /\ c >= now
  /\ CASE f.tag = "trade" -> processTrade(f, c)
       [] f.tag = "kline" -> processKline(f, c)
       [] OTHER -> /\ frames' = Append(frames, f)
                   /\ unhandled' =
                        IF f.tag = "malformed"
                          THEN unhandled \cup
                                 { [id |-> Len(frames) + 1, what |-> "exception"] }
                          ELSE unhandled
                   /\ UNCHANGED << highPrices, lowPrices, succK, succT, failK, failT,
                                   now, pendingEnq, pendingExec, cache,
                                   snapshots, enqCalls, execCalls, snapCalls,
                                   enqSettled, execSettled, statsLogged >>

\* faulty variant: a failed enqueue is issued again
EnqueueDoneRetry(op, err) ==
  /\ op \in pendingEnq
  /\ UNCHANGED hopperVars
  /\ pendingEnq' = IF err THEN pendingEnq ELSE pendingEnq \ {op}
  /\ enqCalls' = IF err THEN BagAdd(enqCalls, [id |-> op.id, delay |-> op.delay])
                  ELSE enqCalls
  /\ IF frames[op.id].tag = "trade"
       THEN /\ failT' = IF err THEN failT + 1 ELSE failT
            /\ succT' = succT + 1
            /\ UNCHANGED << succK, failK >>
       ELSE /\ failK' = IF err THEN failK + 1 ELSE failK
            /\ succK' = succK + 1
            /\ UNCHANGED << succT, failT >>
  /\ enqSettled' = enqSettled \cup { [id |-> op.id, delay |-> op.delay, err |-> err] }
  /\ UNCHANGED << highPrices, lowPrices, now, frames, pendingExec, cache, snapshots,
                  execCalls, snapCalls, execSettled, unhandled, statsLogged >>

\* the callback of rabbit.sendQueue (lines 193-199, 233-239, 290-296);
\* err is TRUE when the enqueue failed
EnqueueDone(op, err) ==
  /\ op \in pendingEnq
  /\ UNCHANGED hopperVars
  /\ pendingEnq' = pendingEnq \ {op}
  /\ IF frames[op.id].tag = "trade"
       THEN /\ failT' = IF err THEN failT + 1 ELSE failT
            /\ succT' = succT + 1
            /\ UNCHANGED << succK, failK >>
       ELSE /\ failK' = IF err THEN failK + 1 ELSE failK
            /\ succK' = succK + 1
            /\ UNCHANGED << succT, failT >>
  /\ enqSettled' = enqSettled \cup { [id |-> op.id, delay |-> op.delay, err |-> err] }
  /\ UNCHANGED << highPrices, lowPrices, now, frames, pendingExec, cache, snapshots,
                  enqCalls, execCalls, snapCalls, execSettled, unhandled,
                  statsLogged >>

\* the atomic group took effect and the promise resolved: .then of lines
\* 211-240 (trade) or 308 (kline)
ExecResolved(op) ==
  LET f == frames[op.id] IN
  /\ op \in pendingExec
  /\ UNCHANGED hopperVars
  /\ pendingExec' = pendingExec \ {op}
  /\ IF f.tag = "trade"
       THEN /\ cache' = AppendPrune(cache, tradeChannel(f), f.t, tradeObject(f), op.cutoff)
            /\ snapshots' =
                 { s \in snapshots :
                     ~(s.symbol = f.s /\ s.interval \in SnapshotIntervals(f.t)) }
                   \cup { [ key |-> "high", interval |-> i, symbol |-> f.s,
                            price |-> highPrices[i] ] : i \in SnapshotIntervals(f.t) }
                   \cup { [ key |-> "low", interval |-> i, symbol |-> f.s,
                            price |-> lowPrices[i] ] : i \in SnapshotIntervals(f.t) }
            /\ snapCalls' = BagAddAll(snapCalls,
                              { [id |-> op.id, interval |-> i] :
                                  i \in SnapshotIntervals(f.t) })
            /\ pendingEnq' = pendingEnq \cup { [id |-> op.id, delay |-> SecondDelay] }
            /\ enqCalls' = BagAdd(enqCalls, [id |-> op.id, delay |-> SecondDelay])
       ELSE /\ cache' = AppendPrune(cache, klineChannel(f), f.t, klineObject(f), op.cutoff)
            /\ UNCHANGED << snapshots, snapCalls, pendingEnq, enqCalls >>
  /\ execSettled' = execSettled \cup { [id |-> op.id, cutoff |-> op.cutoff, ok |-> TRUE] }
  /\ UNCHANGED << highPrices, lowPrices, succK, succT, failK, failT, now, frames,
                  execCalls, enqSettled, unhandled, statsLogged >>

\* faulty variant: the handler of the rejection goes on to the delayed enqueue
ExecRejectedThenEnqueues(op) ==
  /\ op \in pendingExec
  /\ UNCHANGED hopperVars
  /\ pendingExec' = pendingExec \ {op}
  /\ execSettled' = execSettled \cup { [id |-> op.id, cutoff |-> op.cutoff, ok |-> FALSE] }
  /\ unhandled' = unhandled \cup { [id |-> op.id, what |-> "rejection"] }
  /\ IF frames[op.id].tag = "trade"
       THEN /\ pendingEnq' = pendingEnq \cup { [id |-> op.id, delay |-> SecondDelay] }
            /\ enqCalls' = BagAdd(enqCalls, [id |-> op.id, delay |-> SecondDelay])
       ELSE UNCHANGED << pendingEnq, enqCalls >>
  /\ UNCHANGED << highPrices, lowPrices, succK, succT, failK, failT, now, frames,
                  cache, snapshots, execCalls, snapCalls, enqSettled, statsLogged >>

\* the atomic group was rejected: .catch of lines 241-244 and 309-312 logs
\* the error and throws it again, so the promise .catch returns is rejected
\* and has no handler
ExecRejected(op) ==
  /\ op \in pendingExec
  /\ UNCHANGED hopperVars
  /\ pendingExec' = pendingExec \ {op}
  /\ execSettled' = execSettled \cup { [id |-> op.id, cutoff |-> op.cutoff, ok |-> FALSE] }
  /\ unhandled' = unhandled \cup { [id |-> op.id, what |-> "rejection"] }
  /\ UNCHANGED << highPrices, lowPrices, succK, succT, failK, failT, now, frames,
                  pendingEnq, cache, snapshots, enqCalls, execCalls, snapCalls,
                  enqSettled, statsLogged >>

\* faulty variant: the counters are reset before they are logged
StatsTickResetsFirst ==
  /\ UNCHANGED hopperVars
  /\ succK' = 0 /\ succT' = 0 /\ failK' = 0 /\ failT' = 0
  /\ UNCHANGED << highPrices, lowPrices, now, frames, pendingEnq, pendingExec,
                  cache, snapshots, enqCalls, execCalls, snapCalls, enqSettled,
                  execSettled, unhandled, statsLogged >>

\* the 10 s statistics timer (lines 51-56): logs the four counters, then
\* resets them
StatsTick ==
  /\ UNCHANGED hopperVars
  /\ statsLogged' = [ succK |-> statsLogged.succK + succK,
                      succT |-> statsLogged.succT + succT,
                      failK |-> statsLogged.failK + failK,
                      failT |-> statsLogged.failT + failT ]
  /\ succK' = 0 /\ succT' = 0 /\ failK' = 0 /\ failT' = 0
  /\ UNCHANGED << highPrices, lowPrices, now, frames, pendingEnq, pendingExec,
                  cache, snapshots, enqCalls, execCalls, snapCalls, enqSettled,
                  execSettled, unhandled >>

\* ------------------------------------------------------- hopper actions
\* What a message of the queue carries.  "trade" and "kline": the envelope's
\* data is the canonical record processTrade (processKline) built; "depth":
\* a record with another eventType; "empty": the envelope has no data;
\* "null": the data is the JSON text null.
MsgKinds == {"trade", "kline", "depth", "empty", "null"}

\* the fields of the canonical records (binance.js lines 177-191, 257-274)
tradeObjectFields ==
  { "subId", "exchange", "eventType", "eventTime", "symbol", "tradeId", "price",
    "quantity", "buyerOrderId", "sellerOrderId", "tradeTime",
    "isBuyerMarketMaker", "timestamp" }
klineObjectFields ==
  { "subId", "exchange", "eventType", "eventTime", "symbol", "interval", "open",
    "high", "low", "close", "volume", "trades", "isFinal", "quoteAssetVolume",
    "baseAssetVolume", "timestamp" }

\* the fields of the payload the handlers read to build the point
\* (hopper-mq.js lines 146-154 and 172-184)
tradePointReads ==
  { "symbol", "eventType", "isBuyerMarketMaker", "tradeId", "price", "quantity",
    "timestamp" }
klinePointReads ==
  { "symbol", "eventType", "interval", "openPrice", "closePrice", "highPrice",
    "lowPrice", "volume", "trades", "quoteAssetVolume", "timestamp" }

\* the fields a handler reads as undefined: the payload does not have them
Missing(kind) ==
  CASE kind = "trade" -> tradePointReads \ tradeObjectFields
    [] kind = "kline" -> klinePointReads \ klineObjectFields
    [] OTHER -> {}

\* main() (lines 97-101) has no return statement: its value is undefined and
\* has no .then
MainReturnsThenable == FALSE

\* the number of passes of the loop of start(n) (lines 62-80) that push a
\* worker and call its main(): reading .then of undefined (line 66) throws a
\* TypeError out of the first pass
Spawned(n) == IF MainReturnsThenable THEN n ELSE Min(n, 1)

\* start(numThreads) (lines 60-81) with startWorkerProcess (lines 93-118)
Start(n) ==
  /\ starts < MaxStarts
  /\ starts' = starts + 1
  /\ workerProcesses' =
       workerProcesses \o [ k \in 1..Spawned(n) |-> [stopped |-> FALSE] ]
  /\ consumers' =
       consumers \o [ k \in 1..Spawned(n) |-> Len(workerProcesses) + k ]
  /\ started' = [ n |-> n, spawned |-> Spawned(n), registered |-> Spawned(n),
                  raised |-> (n >= 1 /\ ~MainReturnsThenable) ]
  /\ UNCHANGED << successKlines, successTrades, failedKlines, failedTrades, queue,
                  pendingWrites, msgs, handled, deliveries, writeCalls, settled,
                  reported >>
  /\ UNCHANGED ingestVars

\* stop() (lines 83-86) with workerProcess.stop (lines 106-109)
Stop ==
  /\ workerProcesses' = [ k \in DOMAIN workerProcesses |-> [stopped |-> TRUE] ]
  /\ UNCHANGED << consumers, successKlines, successTrades, failedKlines,
                  failedTrades, queue, pendingWrites, msgs, started, starts, handled,
                  deliveries, writeCalls, settled, reported >>
  /\ UNCHANGED ingestVars

\* a producer's enqueue is accepted by the durable queue
Arrive(kind) ==
  /\ msgs < MaxMsgs
  /\ msgs' = msgs + 1
  /\ queue' = queue \cup { [mid |-> msgs + 1, kind |-> kind] }
  /\ UNCHANGED << workerProcesses, consumers, successKlines, successTrades,
                  failedKlines, failedTrades, pendingWrites, started, starts, handled,
                  deliveries, writeCalls, settled, reported >>
  /\ UNCHANGED ingestVars

\* handleMessage (lines 124-139): does it reach JSON.parse(item.data)?
Decodes(m) == m.kind # "empty"

\* does an exception leave handleMessage?  payload.eventType of line 132
\* throws when the payload is null; the Point builder may throw (pointThrows)
Raises(m, pointThrows) ==
  \/ m.kind = "null"
  \/ m.kind \in {"trade", "kline"} /\ pointThrows

\* handleMessage with handleTradeMessage (lines 141-157) and
\* handleKlineMessage (lines 167-186): does it call writeData?  pointThrows:
\* the Point builder of the time-series client rejects a field the handler
\* read as undefined, and the handler ends before line 157 (186).
Writes(m, pointThrows) ==
  m.kind \in {"trade", "kline"} /\ ~pointThrows

\* the queue pushes message m to the k-th registered handler; with noAck
\* (line 100) the message leaves the queue at delivery
Deliver(m, k, pointThrows) ==
  /\ m \in queue
  /\ k \in DOMAIN consumers
  /\ pointThrows => Missing(m.kind) # {}
  /\ queue' = queue \ {m}
  /\ deliveries' = BagAdd(deliveries, m.mid)
  /\ handled' = handled \cup
       { [ mid |-> m.mid, kind |-> m.kind, worker |-> consumers[k],
           stopped |-> workerProcesses[consumers[k]].stopped,
           decoded |-> Decodes(m), wrote |-> Writes(m, pointThrows),
           raised |-> Raises(m, pointThrows), missing |-> Missing(m.kind) ] }
  /\ IF Writes(m, pointThrows)
       THEN /\ pendingWrites' = pendingWrites \cup {m}
            /\ writeCalls' = BagAdd(writeCalls, m.mid)
       ELSE UNCHANGED << pendingWrites, writeCalls >>
  /\ UNCHANGED << workerProcesses, consumers, successKlines, successTrades,
                  failedKlines, failedTrades, msgs, started, starts, settled,
                  reported >>
  /\ UNCHANGED ingestVars

\* writeData resolved: .then of lines 158-160 and 187-189
WriteResolved(m) ==
  /\ m \in pendingWrites
  /\ pendingWrites' = pendingWrites \ {m}
  /\ settled' = settled \cup { [mid |-> m.mid, ok |-> TRUE] }
  /\ IF m.kind = "trade"
       THEN successTrades' = successTrades + 1 /\ UNCHANGED successKlines
       ELSE successKlines' = successKlines + 1 /\ UNCHANGED successTrades
  /\ UNCHANGED << workerProcesses, consumers, failedKlines, failedTrades, queue,
                  msgs, started, starts, handled, deliveries, writeCalls, reported >>
  /\ UNCHANGED ingestVars

\* faulty variant: the rejection is counted as a success as well
WriteRejectedAlsoSuccess(m) ==
  /\ m \in pendingWrites
  /\ pendingWrites' = pendingWrites \ {m}
  /\ settled' = settled \cup { [mid |-> m.mid, ok |-> FALSE] }
  /\ IF m.kind = "trade"
       THEN /\ failedTrades' = failedTrades + 1
            /\ successTrades' = successTrades + 1
            /\ UNCHANGED << failedKlines, successKlines >>
       ELSE /\ failedKlines' = failedKlines + 1
            /\ successKlines' = successKlines + 1
            /\ UNCHANGED << failedTrades, successTrades >>
  /\ UNCHANGED << workerProcesses, consumers, queue,
                  msgs, started, starts, handled, deliveries, writeCalls, reported >>
  /\ UNCHANGED ingestVars

\* faulty variant: the message whose write failed is put back on the queue
WriteRejectedRequeue(m) ==
  /\ m \in pendingWrites
  /\ pendingWrites' = pendingWrites \ {m}
  /\ settled' = settled \cup { [mid |-> m.mid, ok |-> FALSE] }
  /\ queue' = queue \cup {m}
  /\ IF m.kind = "trade"
       THEN failedTrades' = failedTrades + 1 /\ UNCHANGED failedKlines
       ELSE failedKlines' = failedKlines + 1 /\ UNCHANGED failedTrades
  /\ UNCHANGED << workerProcesses, consumers, successKlines, successTrades,
                  msgs, started, starts, handled, deliveries, writeCalls, reported >>
  /\ UNCHANGED ingestVars

\* writeData rejected: .catch of lines 161-164 and 190-193
WriteRejected(m) ==
  /\ m \in pendingWrites
  /\ pendingWrites' = pendingWrites \ {m}
  /\ settled' = settled \cup { [mid |-> m.mid, ok |-> FALSE] }
  /\ IF m.kind = "trade"
       THEN failedTrades' = failedTrades + 1 /\ UNCHANGED failedKlines
       ELSE failedKlines' = failedKlines + 1 /\ UNCHANGED failedTrades
  /\ UNCHANGED << workerProcesses, consumers, successKlines, successTrades, queue,
                  msgs, started, starts, handled, deliveries, writeCalls, reported >>
  /\ UNCHANGED ingestVars

\* the 10 s status timer (lines 23-28): logs the four counters, then resets
HopperTick ==
  /\ reported' = [ successKlines |-> reported.successKlines + successKlines,
                   successTrades |-> reported.successTrades + successTrades,
                   failedKlines |-> reported.failedKlines + failedKlines,
                   failedTrades |-> reported.failedTrades + failedTrades ]
  /\ successKlines' = 0 /\ successTrades' = 0
  /\ failedKlines' = 0 /\ failedTrades' = 0
  /\ UNCHANGED << workerProcesses, consumers, queue, pendingWrites, msgs, started,
                  starts, handled, deliveries, writeCalls, settled >>
  /\ UNCHANGED ingestVars

HopperNext ==
  \/ \E n \in 0..MaxThreads : Start(n)
  \/ Stop
  \/ \E kind \in MsgKinds : Arrive(kind)
  \/ \E m \in queue, k \in DOMAIN consumers, pointThrows \in BOOLEAN :
       Deliver(m, k, pointThrows)
  \/ \E m \in pendingWrites : WriteResolved(m)
  \/ \E m \in pendingWrites : WriteRejected(m)
  \/ HopperTick

Next ==
  \/ \E f \in Frames, c \in ClockValues : Dispatch(f, c)
  \/ \E op \in pendingEnq, err \in BOOLEAN : EnqueueDone(op, err)
  \/ \E op \in pendingExec : ExecResolved(op)
  \/ \E op \in pendingExec : ExecRejected(op)
  \/ StatsTick

Spec == Init /\ [][Next]_vars

\* the extrema tracker alone: highPrices and lowPrices are written by
\* Dispatch only
TrackerNext == \E f \in Frames, c \in ClockValues : Dispatch(f, c)

SpecTracker == Init /\ [][TrackerNext]_vars

\* the two sinks: the statistics timer is left out, it writes the four
\* counters only and no action reads them
SinkNext ==
  \/ \E f \in SinkFrames, c \in ClockValues : Dispatch(f, c)
  \/ \E op \in pendingEnq, err \in BOOLEAN : EnqueueDone(op, err)
  \/ \E op \in pendingExec : ExecResolved(op)
  \/ \E op \in pendingExec : ExecRejected(op)

SpecSinks == Init /\ [][SinkNext]_vars

SpecHopper == Init /\ [][HopperNext]_vars

\* the counters and timers of the two stages.  The stages are two processes
\* that share no variable, so each is run with the other at rest.  The
\* counters are written by the completion callbacks and the timers only:
\* one trade frame and one kline frame, read at one clock value, and the
\* messages that reach a write are enough to drive them.
CounterFrames == { f \in SinkFrames : f.tag = "trade" => f.t = 30 }

CountersNext ==
  \/ /\ HopperInit
     /\ \/ \E f \in CounterFrames : Dispatch(f, RetentionWindow)
        \/ \E op \in pendingEnq, err \in BOOLEAN : EnqueueDone(op, err)
        \/ \E op \in pendingExec : ExecResolved(op)
        \/ \E op \in pendingExec : ExecRejected(op)
        \/ StatsTick
  \/ /\ IngestInit
     /\ \/ Start(1)
        \/ \E kind \in {"trade", "kline"} : Arrive(kind)
        \/ \E m \in queue, k \in DOMAIN consumers, pointThrows \in BOOLEAN :
             Deliver(m, k, pointThrows)
        \/ \E m \in pendingWrites : WriteResolved(m)
        \/ \E m \in pendingWrites : WriteRejected(m)
        \/ HopperTick

SpecCounters == Init /\ [][CountersNext]_vars

\* ==================================================================== claims
IsPublished(id) == frames[id].tag \in {"trade", "kline"}
Resolved(id) == \E x \in execSettled : x.id = id /\ x.ok
SumOver(b) == LET RECURSIVE Sum(_)
                  Sum(S) == IF S = {} THEN 0
                            ELSE LET e == CHOOSE x \in S : TRUE
                                 IN  b[e] + Sum(S \ {e})
              IN  Sum(DOMAIN b)

\* C1: for every n >= 1, start(n) leaves n workers, each consuming with its
\* own registered handler, and raises no error.
C1_StartSpawnsAll ==
  started.n >= 1 =>
    /\ started.spawned = started.n
    /\ started.registered = started.n
    /\ ~started.raised

\* C2: a message delivered to the subscription of a worker that stop() has
\* marked stopped is neither decoded nor written, so it changes no counter.
C2_NoHandlingAfterStop ==
  \A x \in handled : x.stopped => ~x.decoded /\ ~x.wrote

C4_AtMostOnce ==
  \A mid \in 1..msgs :
    /\ Count(deliveries, mid) <= 1
    /\ Count(writeCalls, mid) <= 1
    /\ [mid |-> mid, ok |-> FALSE] \in settled =>
         /\ \A m \in queue : m.mid # mid
         /\ \A m \in pendingWrites : m.mid # mid

C4_Witness ==
  /\ \E x \in settled : ~x.ok /\ Count(deliveries, x.mid) = 1
  /\ msgs = MaxMsgs
  /\ queue = {} /\ pendingWrites = {}

\* C5: the snapshot written under the keys of a symbol holds a price taken
\* from an event of that symbol (or a start value of the tracker).
EventPrices(sym) ==
  { frames[id].p : id \in { j \in 1..Len(frames) :
                             frames[j].tag = "trade" /\ frames[j].s = sym } }
    \cup { frames[id].h : id \in { j \in 1..Len(frames) :
                             frames[j].tag = "kline" /\ frames[j].s = sym } }
    \cup { frames[id].l : id \in { j \in 1..Len(frames) :
                             frames[j].tag = "kline" /\ frames[j].s = sym } }
C5_SnapshotsPerSymbol ==
  \A x \in snapshots :
    x.price \in EventPrices(x.symbol) \cup {Infinity, NegInfinity}

\* C6: a processed trade never lowers a tracked high nor raises a tracked
\* low, and leaves high >= price >= low at every interval it is sampled at.
C6_TradeExtremaMonotone ==
  [][ (Len(frames') = Len(frames) + 1 /\ frames'[Len(frames')].tag = "trade") =>
        \A i \in IntervalSet :
          /\ highPrices'[i] >= highPrices[i]
          /\ lowPrices'[i] <= lowPrices[i]
          /\ JsMod(frames'[Len(frames')].t, i) = 0 =>
               /\ highPrices'[i] >= frames'[Len(frames')].p
               /\ lowPrices'[i] <= frames'[Len(frames')].p ]_vars

C6_Witness ==
  /\ Len(frames) = 2
  /\ frames[1].tag = "trade" /\ frames[1].t = 30 /\ frames[1].p = 1
  /\ frames[2].tag = "trade" /\ frames[2].t = 0 /\ frames[2].p = 2
  /\ lowPrices[5] = 1 /\ lowPrices[60] = 2 /\ highPrices[Infinity] = 2

\* C7: after kline events with one interval label, the high tracked for that
\* label is the largest high reported and the low the smallest low.
KlinesOf(iNum, i) ==
  { id \in 1..Len(frames) :
      frames[id].tag = "kline" /\ frames[id].iNum = iNum /\ frames[id].i = i }
\* highPrices[label] exists only for a label that is a number of the list
HasEntry(iNum, i) == iNum /\ i \in IntervalSet
C7_KlineTracksOwnLabel ==
  \A iNum \in BOOLEAN, i \in {5} :
    KlinesOf(iNum, i) # {} =>
      /\ HasEntry(iNum, i)
      /\ \A id \in KlinesOf(iNum, i) :
           highPrices[i] >= frames[id].h /\ lowPrices[i] <= frames[id].l
      /\ \E id \in KlinesOf(iNum, i) : highPrices[i] = frames[id].h
      /\ \E id \in KlinesOf(iNum, i) : lowPrices[i] = frames[id].l

\* C8: right after an append+prune group has run on a channel, the channel
\* holds no entry with a score below the group's cutoff.
ChannelOf(id) ==
  IF frames[id].tag = "trade" THEN tradeChannel(frames[id])
  ELSE klineChannel(frames[id])
C8_NoStaleAfterAppendPrune ==
  [][ \A op \in pendingExec :
        ExecResolved(op) =>
          \A e \in cache' : e.channel = ChannelOf(op.id) => e.score >= op.cutoff
    ]_vars

\* two trades of one symbol: the first is appended with cutoff 0 and stays,
\* the second is appended one retention window later and both are pruned;
\* a kline entry with a future close time survives
C8_Witness ==
  /\ Len(frames) = 2
  /\ frames[1].tag = "trade" /\ frames[1].t = 30
  /\ frames[2].tag = "trade" /\ frames[2].t = 30 /\ frames[2].s = frames[1].s
  /\ [id |-> 1, cutoff |-> 0, ok |-> TRUE] \in execSettled
  /\ [id |-> 2, cutoff |-> RetentionWindow, ok |-> TRUE] \in execSettled
  /\ cache = {}

\* C9: a trade whose first enqueue succeeded and whose cache append succeeded
\* has one snapshot write for each interval it was sampled against, none for
\* another interval, and two enqueue calls: delay 0 and delay 300.
C9_OneSnapshotPerSampledInterval ==
  \A id \in 1..Len(frames) :
    ( /\ frames[id].tag = "trade"
      /\ [id |-> id, delay |-> 0, err |-> FALSE] \in enqSettled
      /\ Resolved(id) ) =>
        /\ \A i \in IntervalSet :
             Count(snapCalls, [id |-> id, interval |-> i])
               = IF JsMod(frames[id].t, i) = 0 THEN 1 ELSE 0
        /\ Count(enqCalls, [id |-> id, delay |-> 0]) = 1
        /\ Count(enqCalls, [id |-> id, delay |-> SecondDelay]) = 1
        /\ \A k \in DOMAIN enqCalls : k.id = id => k.delay \in {0, SecondDelay}

C9_Witness ==
  \E id \in 1..Len(frames) :
    /\ frames[id].tag = "trade" /\ frames[id].t = 30
    /\ [id |-> id, delay |-> 0, err |-> FALSE] \in enqSettled
    /\ Resolved(id)
    /\ Count(snapCalls, [id |-> id, interval |-> 30]) = 1
    /\ Count(snapCalls, [id |-> id, interval |-> 60]) = 0
    /\ [id |-> id, delay |-> SecondDelay, err |-> FALSE] \in enqSettled

\* C10: every trade and kline event has exactly one append+prune call,
\* whatever became of its enqueue, and a failed enqueue is not issued again.
C10_SinksIndependent ==
  \A id \in 1..Len(frames) :
    IsPublished(id) =>
      /\ Count(execCalls, id) = 1
      /\ \A x \in enqSettled :
           (x.id = id /\ x.err) =>
             Count(enqCalls, [id |-> id, delay |-> x.delay]) = 1
      /\ frames[id].tag = "kline" =>
           \A k \in DOMAIN enqCalls : k.id = id => k.delay = SecondDelay /\ enqCalls[k] = 1

C10_Witness ==
  /\ Len(frames) = 2
  /\ frames[1].tag = "trade" /\ frames[2].tag = "kline"
  /\ [id |-> 1, delay |-> 0, err |-> TRUE] \in enqSettled
  /\ [id |-> 2, delay |-> SecondDelay, err |-> TRUE] \in enqSettled
  /\ \E x \in execSettled : x.id = 1
  /\ \E x \in execSettled : x.id = 2
  /\ Count(execCalls, 1) = 1 /\ Count(execCalls, 2) = 1

\* C11: a trade whose append+prune was rejected has no snapshot write at any
\* interval and no enqueue with delay 300: it was enqueued once, with delay
\* 0.  The step that handles the rejection leaves the cache, the snapshots
\* and the pending calls of every other event as they were.
Rejected(id) == \E x \in execSettled : x.id = id /\ ~x.ok
C12_OneCounterPerCompletion ==
  /\ [](succK + succT + failK + failT = Cardinality(enqSettled))
  /\ [][ \A x \in enqSettled' \ enqSettled :
          IF frames[x.id].tag = "trade"
            THEN /\ failT' = (IF x.err THEN failT + 1 ELSE failT)
                 /\ succT' = (IF x.err THEN succT ELSE succT + 1)
                 /\ succK' = succK /\ failK' = failK
            ELSE /\ failK' = (IF x.err THEN failK + 1 ELSE failK)
                 /\ succK' = (IF x.err THEN succK ELSE succK + 1)
                 /\ succT' = succT /\ failT' = failT ]_vars

\* C13: the step in which an append+prune group is rejected increments the
\* fail counter of the event's kind: failT for a trade, failK for a kline.
C13_RejectedCacheWriteCounted ==
  [][ \A x \in execSettled' \ execSettled :
        ~x.ok => IF frames[x.id].tag = "trade"
                   THEN failT' = failT + 1
                   ELSE failK' = failK + 1 ]_vars

\* C14: no error is left unhandled: no exception has left the frame handler
\* or the message handler, and no promise is left rejected without a handler.
C14_NoErrorUnhandled ==
  /\ unhandled = {}
  /\ \A x \in handled : ~x.raised

\* C15: handling a message whose payload is null or empty raises no error,
\* calls no time-series write and, with no write to settle, changes no counter.
C15_NullPayloadIsNoOp ==
  \A x \in handled :
    x.kind \in {"null", "empty"} =>
      /\ ~x.raised
      /\ ~x.wrote
      /\ Count(writeCalls, x.mid) = 0
      /\ \A y \in settled : y.mid # x.mid

\* C16: the dispatch of a frame whose tag is neither trade nor kline issues
\* no enqueue and no cache write and leaves the cache, the snapshots, the
\* extrema and the four counters unchanged.
C16_UnsupportedFrameDropped ==
  [][ ( /\ Len(frames') = Len(frames) + 1
        /\ frames'[Len(frames')].tag \notin {"trade", "kline"} ) =>
          /\ pendingEnq' = pendingEnq /\ enqCalls' = enqCalls
          /\ pendingExec' = pendingExec /\ execCalls' = execCalls
          /\ cache' = cache /\ snapshots' = snapshots /\ snapCalls' = snapCalls
          /\ highPrices' = highPrices /\ lowPrices' = lowPrices
          /\ succK' = succK /\ succT' = succT
          /\ failK' = failK /\ failT' = failT ]_vars

\* a depth frame dispatched after a trade: the trade's two calls are the
\* only ones pending
C16_Witness ==
  /\ Len(frames) = 2
  /\ frames[1].tag = "trade" /\ frames[1].t = 0 /\ frames[1].p = 2
  /\ frames[2].tag = "depth"
  /\ pendingEnq = { [id |-> 1, delay |-> 0] }
  /\ Cardinality(pendingExec) = 1
  /\ highPrices[Infinity] = 2

\* C17: before any frame, every interval's tracked high is -Infinity and its
\* tracked low is +Infinity; after a first frame that is a trade with price
\* p, the high and the low of every interval it is sampled at are both p.
C17_ExtremaStartValues ==
  /\ Len(frames) = 0 =>
       \A i \in IntervalSet :
         highPrices[i] = NegInfinity /\ lowPrices[i] = Infinity
  /\ (Len(frames) = 1 /\ frames[1].tag = "trade") =>
       \A i \in IntervalSet :
         JsMod(frames[1].t, i) = 0 =>
           highPrices[i] = frames[1].p /\ lowPrices[i] = frames[1].p

\* C18: for each of the eight counters, the values the ticks have logged so
\* far plus the counter's current value is the number of increments made so
\* far (one success increment per completed enqueue and one fail increment per
\* failed enqueue on the ingestion side, one increment per settled write on
\* the consumer side); a tick leaves the four counters of its stage at zero.
KindOfMsg(mid) == (CHOOSE x \in handled : x.mid = mid).kind
EnqDone(tag) == { x \in enqSettled : frames[x.id].tag = tag }
WritesDone(kind, ok) == { x \in settled : x.ok = ok /\ KindOfMsg(x.mid) = kind }
C18_TicksLoseNothing ==
  /\ []( /\ statsLogged.succT + succT = Cardinality(EnqDone("trade"))
         /\ statsLogged.succK + succK = Cardinality(EnqDone("kline"))
         /\ statsLogged.failT + failT
              = Cardinality({ x \in EnqDone("trade") : x.err })
         /\ statsLogged.failK + failK
              = Cardinality({ x \in EnqDone("kline") : x.err })
         /\ reported.successTrades + successTrades
              = Cardinality(WritesDone("trade", TRUE))
         /\ reported.successKlines + successKlines
              = Cardinality(WritesDone("kline", TRUE))
         /\ reported.failedTrades + failedTrades
              = Cardinality(WritesDone("trade", FALSE))
         /\ reported.failedKlines + failedKlines
              = Cardinality(WritesDone("kline", FALSE)) )
  /\ [][ /\ statsLogged' # statsLogged =>
              succK' = 0 /\ succT' = 0 /\ failK' = 0 /\ failT' = 0
         /\ reported' # reported =>
              /\ successKlines' = 0 /\ successTrades' = 0
              /\ failedKlines' = 0 /\ failedTrades' = 0 ]_vars

\* ingestion: a tick between the two enqueue completions of one trade, the
\* second of which failed
C18_Witness ==
  /\ statsLogged.succT = 1 /\ succT = 1 /\ failT = 1 /\ statsLogged.failT = 0
  /\ Cardinality(EnqDone("trade")) = 2
  /\ [id |-> 1, delay |-> SecondDelay, err |-> TRUE] \in enqSettled

\* C19: a trade with event time t changes the extrema of no interval i with
\* t mod i # 0 and applies max and min at every interval with t mod i = 0;
\* once its cache append has succeeded, its snapshot writes cover exactly the
\* intervals with t mod i = 0.  For the unbounded interval t mod i = 0 holds
\* when t = 0 only.
Aligned(t, i) == IF i = Infinity THEN t = 0 ELSE t % i = 0
C19_SampledExactlyWhenAligned ==
  /\ [](\A id \in 1..Len(frames) :
          (frames[id].tag = "trade" /\ Resolved(id)) =>
            { i \in IntervalSet : Count(snapCalls, [id |-> id, interval |-> i]) > 0 }
              = { i \in IntervalSet : Aligned(frames[id].t, i) })
  /\ [][ (Len(frames') = Len(frames) + 1 /\ frames'[Len(frames')].tag = "trade") =>
           LET f == frames'[Len(frames')] IN
           \A i \in IntervalSet :
             IF Aligned(f.t, i)
               THEN /\ highPrices'[i] = Max(highPrices[i], f.p)
                    /\ lowPrices'[i] = Min(lowPrices[i], f.p)
               ELSE /\ highPrices'[i] = highPrices[i]
                    /\ lowPrices'[i] = lowPrices[i] ]_vars

\* a trade at t = 0 reaches the unbounded interval, a later one at t = 30
\* reaches the four finest intervals only; both appends have succeeded
C19_Witness ==
  /\ Len(frames) = 2
  /\ frames[1].tag = "trade" /\ frames[1].t = 0
  /\ frames[2].tag = "trade" /\ frames[2].t = 30
  /\ Resolved(1) /\ Resolved(2)
  /\ Count(snapCalls, [id |-> 1, interval |-> Infinity]) = 1
  /\ Count(snapCalls, [id |-> 2, interval |-> 30]) = 1
  /\ Count(snapCalls, [id |-> 2, interval |-> 60]) = 0
  /\ Count(snapCalls, [id |-> 2, interval |-> Infinity]) = 0
  /\ lowPrices[60] = 1 /\ lowPrices[Infinity] = NegInfinity

\* C20: for a delivered kline message, every field the handler reads from the
\* payload is a field of the record processKline built, the point is built
\* without an error and the write is issued.
C20_KlineFieldsAgree ==
  \A x \in handled :
    x.kind = "kline" =>
      /\ x.missing = {}
      /\ ~x.raised
      /\ x.wrote /\ Count(writeCalls, x.mid) = 1
====
